---- MODULE Spec2Model ----
(***************************************************************************)
(* A model of finance-track's two components:                              *)
(*   PrivateRoute   (src/src/components/auth/PrivateRoute.tsx)             *)
(*   InvestmentForm (src/src/components/InvestmentForm.tsx)                *)
(*                                                                         *)
(* Text (the raw value of a form field) is a sequence of one-character     *)
(* strings, so that parseFloat and Number.prototype.toString are computed  *)
(* character by character.  A JavaScript number is a fraction n/d in       *)
(* lowest terms: d > 0 is a finite value, 1/0 and -1/0 are the two         *)
(* infinities and 0/0 is NaN.  Arithmetic is exact: the rounding of IEEE   *)
(* doubles, the exponent notation and the literal "Infinity" lie outside   *)
(* the texts and values the model draws its inputs from.                   *)
(*                                                                         *)
(* Every handler runs to completion (the UI event loop is single-threaded  *)
(* and React commits a handler's state updates together), so each handler  *)
(* is one action.  ev names the handler that ran last and log holds, in    *)
(* order, what that run sent out: onAddInvestment and onCancelEdit calls   *)
(* and toast notifications.                                                *)
(***************************************************************************)
EXTENDS Integers, Sequences, FiniteSets, TLC

VARIABLES user, loading, rendered,
          date, amount, ethPrice, isLoading, type, editingInvestment,
          pending, ev, log

authVars == <<user, loading, rendered>>
formVars == <<date, amount, ethPrice, isLoading, type, editingInvestment>>
vars == <<user, loading, rendered,
          date, amount, ethPrice, isLoading, type, editingInvestment,
          pending, ev, log>>

(***************************************************************************)
(* Bounds of the model.                                                    *)
(***************************************************************************)
\* getEthPrice() calls that may be awaiting their response at one time.
MaxInFlight == 2
\* Fraction digits Number.prototype.toString writes for the model's values.
MaxFracDigits == 3

(***************************************************************************)
(* Optional values: null is the empty sequence, a value v is <<v>>.        *)
(***************************************************************************)
Null == <<>>

Some(v) == <<v>>

(***************************************************************************)
(* JavaScript numbers.                                                     *)
(***************************************************************************)
AbsInt(i) == IF i < 0 THEN -i ELSE i

SignInt(i) == IF i < 0 THEN -1 ELSE IF i > 0 THEN 1 ELSE 0

RECURSIVE GCD(_, _)
GCD(a, b) == IF b = 0 THEN a ELSE GCD(b, a % b)

\* The number n/d in lowest terms with d >= 0 (d = 0: an infinity or NaN).
Num(n, d) ==
    LET s == IF d < 0 THEN -1 ELSE 1
        g == GCD(AbsInt(n), AbsInt(d))
    IN  IF g = 0 THEN [n |-> 0, d |-> 0]
        ELSE [n |-> (s * n) \div g, d |-> (s * d) \div g]

NaN == [n |-> 0, d |-> 0]

isNaN(x) == x.n = 0 /\ x.d = 0

IsFinite(x) == x.d > 0

\* -x
Neg(x) == [n |-> -x.n, d |-> x.d]

\* Math.abs(x)
MathAbs(x) == [n |-> AbsInt(x.n), d |-> x.d]

\* x / y
Div(x, y) == Num(x.n * y.d, x.d * y.n)

\* x * y
Mul(x, y) == Num(x.n * y.n, x.d * y.d)

\* x <= 0 (false for NaN, as every comparison with NaN is)
LeqZero(x) == IF x.d = 0 THEN x.n < 0 ELSE x.n <= 0

\* x > 0
GtZero(x) == x.n > 0

\* x < 0
LtZero(x) == x.n < 0

(***************************************************************************)
(* parseFloat: leading white space is skipped, then the longest prefix     *)
(* that is a decimal literal (sign, digits, point, digits) is read and the *)
(* rest of the text is ignored; NaN when there is no such prefix.          *)
(***************************************************************************)
Digits == <<"0", "1", "2", "3", "4", "5", "6", "7", "8", "9">>

IsDigit(c) == \E i \in 1..10 : Digits[i] = c

DigitVal(c) == (CHOOSE i \in 1..10 : Digits[i] = c) - 1

IsSpace(c) == c = " "

RECURSIVE Pow10(_)
Pow10(k) == IF k = 0 THEN 1 ELSE 10 * Pow10(k - 1)

\* The first position at or after i of s that holds no white space.
RECURSIVE SkipSpaces(_, _)
SkipSpaces(s, i) ==
    IF i <= Len(s) /\ IsSpace(s[i]) THEN SkipSpaces(s, i + 1) ELSE i

\* The number of digits of s from position i on.
RECURSIVE DigitRun(_, _)
DigitRun(s, i) ==
    IF i <= Len(s) /\ IsDigit(s[i]) THEN 1 + DigitRun(s, i + 1) ELSE 0

\* The value of the k digits of s from position i on.
RECURSIVE DigitsValue(_, _, _)
DigitsValue(s, i, k) ==
    IF k = 0 THEN 0
    ELSE 10 * DigitsValue(s, i, k - 1) + DigitVal(s[i + k - 1])

parseFloat(s) ==
    LET i0 == SkipSpaces(s, 1)
        signed == i0 <= Len(s) /\ s[i0] \in {"+", "-"}
        sgn == IF signed /\ s[i0] = "-" THEN -1 ELSE 1
        i1 == IF signed THEN i0 + 1 ELSE i0
        ni == DigitRun(s, i1)
        i2 == i1 + ni
        point == i2 <= Len(s) /\ s[i2] = "."
        nf == IF point THEN DigitRun(s, i2 + 1) ELSE 0
    IN  IF ni = 0 /\ nf = 0 THEN NaN
        ELSE Num(sgn * (DigitsValue(s, i1, ni) * Pow10(nf)
                        + DigitsValue(s, i2 + 1, nf)),
                 Pow10(nf))

(***************************************************************************)
(* Number.prototype.toString for NaN and for finite values written with at *)
(* most MaxFracDigits fraction digits.                                     *)
(***************************************************************************)
\* The decimal digits of the natural number i, most significant first.
RECURSIVE IntDigits(_)
IntDigits(i) ==
    IF i < 10 THEN <<Digits[i + 1]>>
    ELSE Append(IntDigits(i \div 10), Digits[(i % 10) + 1])

\* The fraction digits of r/d (0 <= r < d) by long division, at most k.
RECURSIVE FracDigits(_, _, _)
FracDigits(r, d, k) ==
    IF r = 0 \/ k = 0 THEN <<>>
    ELSE <<Digits[((10 * r) \div d) + 1]>> \o FracDigits((10 * r) % d, d, k - 1)

toString(x) ==
    IF isNaN(x) THEN <<"N", "a", "N">>
    ELSE LET a == AbsInt(x.n)
             f == FracDigits(a % x.d, x.d, MaxFracDigits)
         IN  (IF x.n < 0 THEN <<"-">> ELSE <<>>)
             \o IntDigits(a \div x.d)
             \o (IF f = <<>> THEN <<>> ELSE <<".">> \o f)

(***************************************************************************)
(* Date strings.  A date-only string "YYYY-MM-DD" names a day; a date-time *)
(* string also carries an hour and the hours its zone is ahead of UTC.     *)
(* The empty string is the cleared date field.                             *)
(***************************************************************************)
EmptyDate == [empty |-> TRUE, day |-> 0, hasTime |-> FALSE, hour |-> 0, off |-> 0]

DayOnly(d) == [empty |-> FALSE, day |-> d, hasTime |-> FALSE, hour |-> 0, off |-> 0]

DateTime(d, h, o) == [empty |-> FALSE, day |-> d, hasTime |-> TRUE, hour |-> h, off |-> o]

\* new Date(s).toISOString().split("T")[0]: the UTC day of the instant s names
\* (a date-only string names midnight UTC of its day).
toISODay(s) ==
    LET utcHour == IF s.hasTime THEN s.hour - s.off ELSE 0
    IN  DayOnly(s.day + (IF utcHour < 0 THEN -1 ELSE IF utcHour >= 24 THEN 1 ELSE 0))

\* new Date().toISOString().split("T")[0]: the current day.
Today == DayOnly(20)

(***************************************************************************)
(* What the environment supplies.                                          *)
(***************************************************************************)
\* AuthState.user of the auth provider.
Users == {Null, Some("alice")}

\* Values the user leaves in the date field.
DateInputs == {EmptyDate, DayOnly(18)}

\* Values the user leaves in the amount field.
AmountInputs ==
    { <<>>, <<"a", "b", "c">>, <<"-", "5">>, <<"0">>, <<"5">>, <<"5", "x">> }

\* Values the user leaves in the ETH price field.
EthPriceInputs == { <<>>, <<"x", "y", "z">>, <<"0">>, <<"4">> }

\* Prices getEthPrice() resolves with.
Prices == { Num(2, 1), Num(5, 2) }

\* Results of Math.random().toString(36).substring(2, 9); it is the empty
\* string when Math.random() returns 0.
NewIds == { "", "k3f9q2a" }

\* Records the parent passes as editingInvestment.
EditSamples ==
    { [id |-> "a1", date |-> DayOnly(18), amount |-> Num(5, 1),
       ethPrice |-> Num(2, 1), ethAmount |-> Num(5, 2), type |-> "deposit"],
      [id |-> "b2", date |-> DateTime(19, 23, -5), amount |-> Num(-10, 1),
       ethPrice |-> Num(4, 1), ethAmount |-> Num(-5, 2), type |-> "withdrawal"],
      [id |-> "c3", date |-> DayOnly(18), amount |-> Num(5, 2),
       ethPrice |-> Num(5, 2), ethAmount |-> Num(1, 1), type |-> ""],
      [id |-> "", date |-> DayOnly(18), amount |-> Num(5, 1),
       ethPrice |-> Num(2, 1), ethAmount |-> Num(5, 2), type |-> "deposit"],
      [id |-> "d4", date |-> DayOnly(18), amount |-> Num(-10, 1),
       ethPrice |-> Num(4, 1), ethAmount |-> Num(-5, 2), type |-> "withdrawal"] }

EditingOpts == {Null} \cup { Some(r) : r \in EditSamples }

(***************************************************************************)
(* PrivateRoute.                                                           *)
(***************************************************************************)
Placeholder == [placeholder |-> TRUE, children |-> FALSE, redirect |-> ""]

Children == [placeholder |-> FALSE, children |-> TRUE, redirect |-> ""]

Navigate(to) == [placeholder |-> FALSE, children |-> FALSE, redirect |-> to]

\* PrivateRoute without its loading branch.
PrivateRoute_NoLoadingBranch(u, l) ==
    IF u # Null THEN Children ELSE Navigate("/login")

PrivateRoute(u, l) ==
    IF l THEN Placeholder
    ELSE IF u # Null THEN Children ELSE Navigate("/login")

(***************************************************************************)
(* What a handler sends out.                                               *)
(***************************************************************************)
ToastError(m) == [k |-> "toast", level |-> "error", msg |-> m, rec |-> Null]

ToastSuccess(m) == [k |-> "toast", level |-> "success", msg |-> m, rec |-> Null]

OnAddInvestment(r) == [k |-> "call", level |-> "", msg |-> "", rec |-> Some(r)]

OnCancelEdit == [k |-> "cancel", level |-> "", msg |-> "", rec |-> Null]

MsgComplete == "Please complete all fields"

MsgNumeric == "Please enter valid numeric values"

MsgPositive == "Values must be greater than zero"

MsgFetch == "Error getting ETH price. Enter it manually."

MsgUpdated == "Investment updated"

MsgAdded == "Investment added"

\* The records passed to onAddInvestment in the run that l logs.
Calls(l) == SelectSeq(l, LAMBDA x : x.k = "call")

\* The notifications shown in the run that l logs.
Toasts(l) == SelectSeq(l, LAMBDA x : x.k = "toast")

(***************************************************************************)
(* InvestmentForm.  A form state st holds the component's useState values  *)
(* and pending, the number of getEthPrice() calls awaiting their response. *)
(***************************************************************************)
Cur == [date |-> date, amount |-> amount, ethPrice |-> ethPrice,
        isLoading |-> isLoading, type |-> type, pending |-> pending]

Commit(st) ==
    /\ date' = st.date
    /\ amount' = st.amount
    /\ ethPrice' = st.ethPrice
    /\ isLoading' = st.isLoading
    /\ type' = st.type
    /\ pending' = st.pending

\* The useState initial values of a mount with editingInvestment = e.
InitialState(e) ==
    [date |-> Today, amount |-> <<>>, ethPrice |-> <<>>, isLoading |-> FALSE,
     type |-> IF e # Null /\ e[1].type # "" THEN e[1].type ELSE "deposit",
     pending |-> 0]

\* fetchEthPrice without setIsLoading(true).
fetchEthPriceStart_NoFlag(st) == [st EXCEPT !.pending = @ + 1]

\* fetchEthPrice up to its await.
fetchEthPriceStart(st) ==
    [st EXCEPT !.isLoading = TRUE, !.pending = @ + 1]

\* The resolved branch keeping a price field that already holds text.
fetchEthPriceResolved_KeepsFilled(st, price) ==
    [st EXCEPT !.ethPrice = IF @ = <<>> THEN toString(price) ELSE @,
               !.isLoading = FALSE, !.pending = @ - 1]

\* The resolved branch without the finally block.
fetchEthPriceResolved_NoFinally(st, price) ==
    [st EXCEPT !.ethPrice = toString(price), !.pending = @ - 1]

\* fetchEthPrice after getEthPrice() resolved with price.
fetchEthPriceResolved(st, price) ==
    [st EXCEPT !.ethPrice = toString(price), !.isLoading = FALSE,
               !.pending = @ - 1]

\* The catch branch also clearing the price field.
fetchEthPriceRejected_ClearsPrice(st) ==
    [st EXCEPT !.ethPrice = <<>>, !.isLoading = FALSE, !.pending = @ - 1]

\* fetchEthPrice after getEthPrice() rejected.
fetchEthPriceRejected(st) ==
    [st EXCEPT !.isLoading = FALSE, !.pending = @ - 1]

\* The effect loading the stored signed amount without Math.abs.
useEffect_NoAbs(st, e) ==
    IF e # Null
    THEN [st EXCEPT !.date = toISODay(e[1].date),
                    !.amount = toString(e[1].amount),
                    !.ethPrice = toString(e[1].ethPrice),
                    !.type = IF e[1].type # "" THEN e[1].type ELSE "deposit"]
    ELSE fetchEthPriceStart(st)

\* The effect that runs after mount and whenever editingInvestment changes.
useEffect(st, e) ==
    IF e # Null
    THEN [st EXCEPT !.date = toISODay(e[1].date),
                    !.amount = toString(MathAbs(e[1].amount)),
                    !.ethPrice = toString(e[1].ethPrice),
                    !.type = IF e[1].type # "" THEN e[1].type ELSE "deposit"]
    ELSE fetchEthPriceStart(st)

(***************************************************************************)
(* handleSubmit.                                                           *)
(***************************************************************************)
\* The required-field test without ethPrice.
MissingField_NoEthPrice(d, a, p) == d = EmptyDate \/ a = <<>>

\* !date || !amount || !ethPrice
MissingField(d, a, p) == d = EmptyDate \/ a = <<>> \/ p = <<>>

\* The NaN test on amountNumber alone.
NotNumeric_AmountOnly(amountNumber, ethPriceNumber) == isNaN(amountNumber)

\* isNaN(amountNumber) || isNaN(ethPriceNumber)
NotNumeric(amountNumber, ethPriceNumber) ==
    isNaN(amountNumber) \/ isNaN(ethPriceNumber)

\* The positivity test with < for <=.
NotPositive_Strict(amountNumber, ethPriceNumber) ==
    LtZero(amountNumber) \/ LtZero(ethPriceNumber)

\* amountNumber <= 0 || ethPriceNumber <= 0
NotPositive(amountNumber, ethPriceNumber) ==
    LeqZero(amountNumber) \/ LeqZero(ethPriceNumber)

\* finalAmount never negated.
FinalAmount_NoFlip(amountNumber, t) == amountNumber

\* finalAmount
FinalAmount(amountNumber, t) ==
    IF t = "withdrawal" THEN Neg(amountNumber) ELSE amountNumber

\* finalEthAmount never negated.
FinalEthAmount_NoFlip(amountNumber, ethPriceNumber, t) ==
    Div(amountNumber, ethPriceNumber)

\* finalEthAmount
FinalEthAmount(amountNumber, ethPriceNumber, t) ==
    IF t = "withdrawal" THEN Neg(Div(amountNumber, ethPriceNumber))
    ELSE Div(amountNumber, ethPriceNumber)

\* The id generated anew on every submit.
InvestmentId_AlwaysNew(e, newId) == newId

\* editingInvestment?.id || Math.random().toString(36).substring(2, 9)
InvestmentId(e, newId) == IF e # Null /\ e[1].id # "" THEN e[1].id ELSE newId

\* investmentData
InvestmentData(st, e, newId) ==
    [id |-> InvestmentId(e, newId),
     date |-> st.date,
     amount |-> FinalAmount(parseFloat(st.amount), st.type),
     ethPrice |-> parseFloat(st.ethPrice),
     ethAmount |-> FinalEthAmount(parseFloat(st.amount), parseFloat(st.ethPrice),
                                  st.type),
     type |-> st.type]

\* The price field cleared after every submit that passed validation.
AfterSubmit_ClearsPrice(st, e) ==
    IF e = Null
    THEN fetchEthPriceStart([st EXCEPT !.amount = <<>>, !.ethPrice = <<>>])
    ELSE [st EXCEPT !.ethPrice = <<>>]

\* The reset and the fetch also after an edit submit.
AfterSubmit_AlwaysReset(st, e) ==
    fetchEthPriceStart([st EXCEPT !.amount = <<>>])

\* The state the form is left in by a submit that passed validation.
AfterSubmit(st, e) ==
    IF e = Null THEN fetchEthPriceStart([st EXCEPT !.amount = <<>>]) ELSE st

\* editingInvestment ? "Investment updated" : "Investment added"
SuccessMessage(e) == IF e # Null THEN MsgUpdated ELSE MsgAdded

\* handleSubmit doing nothing while a price fetch is loading.
handleSubmit_BlockedWhileLoading(st, e, newId) ==
    IF st.isLoading
    THEN [st |-> st, log |-> <<>>]
    ELSE IF MissingField(st.date, st.amount, st.ethPrice)
    THEN [st |-> st, log |-> <<ToastError(MsgComplete)>>]
    ELSE IF NotNumeric(parseFloat(st.amount), parseFloat(st.ethPrice))
    THEN [st |-> st, log |-> <<ToastError(MsgNumeric)>>]
    ELSE IF NotPositive(parseFloat(st.amount), parseFloat(st.ethPrice))
    THEN [st |-> st, log |-> <<ToastError(MsgPositive)>>]
    ELSE [st |-> AfterSubmit(st, e),
          log |-> << OnAddInvestment(InvestmentData(st, e, newId)),
                     ToastSuccess(SuccessMessage(e)) >>]

\* handleSubmit with the numeric test ahead of the required-field test.
handleSubmit_NumericFirst(st, e, newId) ==
    IF NotNumeric(parseFloat(st.amount), parseFloat(st.ethPrice))
    THEN [st |-> st, log |-> <<ToastError(MsgNumeric)>>]
    ELSE IF MissingField(st.date, st.amount, st.ethPrice)
    THEN [st |-> st, log |-> <<ToastError(MsgComplete)>>]
    ELSE IF NotPositive(parseFloat(st.amount), parseFloat(st.ethPrice))
    THEN [st |-> st, log |-> <<ToastError(MsgPositive)>>]
    ELSE [st |-> AfterSubmit(st, e),
          log |-> << OnAddInvestment(InvestmentData(st, e, newId)),
                     ToastSuccess(SuccessMessage(e)) >>]

\* handleSubmit clearing the amount field when the values are not numeric.
handleSubmit_ClearsOnError(st, e, newId) ==
    IF MissingField(st.date, st.amount, st.ethPrice)
    THEN [st |-> st, log |-> <<ToastError(MsgComplete)>>]
    ELSE IF NotNumeric(parseFloat(st.amount), parseFloat(st.ethPrice))
    THEN [st |-> [st EXCEPT !.amount = <<>>],
          log |-> <<ToastError(MsgNumeric)>>]
    ELSE IF NotPositive(parseFloat(st.amount), parseFloat(st.ethPrice))
    THEN [st |-> st, log |-> <<ToastError(MsgPositive)>>]
    ELSE [st |-> AfterSubmit(st, e),
          log |-> << OnAddInvestment(InvestmentData(st, e, newId)),
                     ToastSuccess(SuccessMessage(e)) >>]

\* handleSubmit without the return after the "greater than zero" toast.
handleSubmit_NoReturn(st, e, newId) ==
    IF MissingField(st.date, st.amount, st.ethPrice)
    THEN [st |-> st, log |-> <<ToastError(MsgComplete)>>]
    ELSE IF NotNumeric(parseFloat(st.amount), parseFloat(st.ethPrice))
    THEN [st |-> st, log |-> <<ToastError(MsgNumeric)>>]
    ELSE [st |-> AfterSubmit(st, e),
          log |-> (IF NotPositive(parseFloat(st.amount), parseFloat(st.ethPrice))
                   THEN <<ToastError(MsgPositive)>> ELSE <<>>)
                  \o << OnAddInvestment(InvestmentData(st, e, newId)),
                        ToastSuccess(SuccessMessage(e)) >>]

\* handleSubmit on form state st with editingInvestment = e, where newId is
\* what the identifier generator returns: the state it leaves and its log.
handleSubmit(st, e, newId) ==
    IF MissingField(st.date, st.amount, st.ethPrice)
    THEN [st |-> st, log |-> <<ToastError(MsgComplete)>>]
    ELSE IF NotNumeric(parseFloat(st.amount), parseFloat(st.ethPrice))
    THEN [st |-> st, log |-> <<ToastError(MsgNumeric)>>]
    ELSE IF NotPositive(parseFloat(st.amount), parseFloat(st.ethPrice))
    THEN [st |-> st, log |-> <<ToastError(MsgPositive)>>]
    ELSE [st |-> AfterSubmit(st, e),
          log |-> << OnAddInvestment(InvestmentData(st, e, newId)),
                     ToastSuccess(SuccessMessage(e)) >>]

(***************************************************************************)
(* The state after construction: the components are mounted and the        *)
(* form's mount effect has run.                                            *)
(***************************************************************************)
Init ==
    /\ user \in Users
    /\ loading \in BOOLEAN
    /\ rendered = PrivateRoute(user, loading)
    /\ editingInvestment \in EditingOpts
    /\ LET st == useEffect(InitialState(editingInvestment), editingInvestment)
       IN  /\ date = st.date
           /\ amount = st.amount
           /\ ethPrice = st.ethPrice
           /\ isLoading = st.isLoading
           /\ type = st.type
           /\ pending = st.pending
    /\ ev = "mount"
    /\ log = <<>>

(***************************************************************************)
(* Actions.                                                                *)
(***************************************************************************)
\* The auth provider publishes a new AuthState and PrivateRoute renders again.
AuthChange ==
    \E u \in Users, l \in BOOLEAN :
        /\ user' = u
        /\ loading' = l
        /\ rendered' = PrivateRoute(u, l)
        /\ ev' = "auth"
        /\ log' = <<>>
        /\ UNCHANGED <<formVars, pending>>

\* onChange of the date input.
ChangeDate ==
    \E v \in DateInputs :
        /\ Commit([Cur EXCEPT !.date = v])
        /\ ev' = "date"
        /\ log' = <<>>
        /\ UNCHANGED <<authVars, editingInvestment>>

\* onChange of the amount input.
ChangeAmount ==
    \E v \in AmountInputs :
        /\ Commit([Cur EXCEPT !.amount = v])
        /\ ev' = "amount"
        /\ log' = <<>>
        /\ UNCHANGED <<authVars, editingInvestment>>

\* onChange of the ETH price input.
ChangeEthPrice ==
    \E v \in EthPriceInputs :
        /\ Commit([Cur EXCEPT !.ethPrice = v])
        /\ ev' = "ethPrice"
        /\ log' = <<>>
        /\ UNCHANGED <<authVars, editingInvestment>>

\* onValueChange of the type radio group.
ChangeType ==
    \E v \in {"deposit", "withdrawal"} :
        /\ Commit([Cur EXCEPT !.type = v])
        /\ ev' = "type"
        /\ log' = <<>>
        /\ UNCHANGED <<authVars, editingInvestment>>

\* A click on "Get Current Price", which is disabled while isLoading.
ClickGetPrice ==
    /\ ~isLoading
    /\ pending < MaxInFlight
    /\ Commit(fetchEthPriceStart(Cur))
    /\ ev' = "button"
    /\ log' = <<>>
    /\ UNCHANGED <<authVars, editingInvestment>>

\* getEthPrice() resolves for one of the fetches in flight.
FetchResolve ==
    \E price \in Prices :
        /\ pending > 0
        /\ Commit(fetchEthPriceResolved(Cur, price))
        /\ ev' = "resolve"
        /\ log' = <<>>
        /\ UNCHANGED <<authVars, editingInvestment>>

\* getEthPrice() rejects for one of the fetches in flight.
FetchReject ==
    /\ pending > 0
    /\ Commit(fetchEthPriceRejected(Cur))
    /\ ev' = "reject"
    /\ log' = <<ToastError(MsgFetch)>>
    /\ UNCHANGED <<authVars, editingInvestment>>

\* The form is submitted.
Submit ==
    \E newId \in NewIds :
        LET r == handleSubmit(Cur, editingInvestment, newId)
        IN  /\ r.st.pending <= MaxInFlight
            /\ Commit(r.st)
            /\ ev' = "submit"
            /\ log' = r.log
            /\ UNCHANGED <<authVars, editingInvestment>>

\* The parent passes another editingInvestment (a record, or null after a
\* record) and the effect runs.
PropsChange ==
    \E e \in EditingOpts :
        /\ ~(e = Null /\ editingInvestment = Null)
        /\ useEffect(Cur, e).pending <= MaxInFlight
        /\ editingInvestment' = e
        /\ Commit(useEffect(Cur, e))
        /\ ev' = "props"
        /\ log' = <<>>
        /\ UNCHANGED authVars

\* A click on "Cancel", which is rendered while editing.
CancelEdit ==
    /\ editingInvestment # Null
    /\ ev' = "cancel"
    /\ log' = <<OnCancelEdit>>
    /\ UNCHANGED <<authVars, formVars, pending>>

Next ==
    \/ AuthChange
    \/ ChangeDate
    \/ ChangeAmount
    \/ ChangeEthPrice
    \/ ChangeType
    \/ ClickGetPrice
    \/ FetchResolve
    \/ FetchReject
    \/ Submit
    \/ PropsChange
    \/ CancelEdit

Spec == Init /\ [][Next]_vars

\* The price service answers every request: a getEthPrice() call that is
\* awaiting its response is resolved or rejected in the end.
\* InvestmentForm on its own, under a PrivateRoute that stays as mounted (the
\* two components share no state).
FormInit == Init /\ user = Null /\ loading

FormNext ==
    \/ ChangeDate
    \/ ChangeAmount
    \/ ChangeEthPrice
    \/ ChangeType
    \/ ClickGetPrice
    \/ FetchResolve
    \/ FetchReject
    \/ Submit
    \/ PropsChange
    \/ CancelEdit

FairSpec ==
    FormInit /\ [][FormNext]_vars /\ WF_vars(FetchResolve \/ FetchReject)

(***************************************************************************)
(* Definitions the properties share.                                       *)
(***************************************************************************)
\* w is a decimal literal: an optional sign, then digits, or digits with a
\* point and more digits, with at least one digit in all.
IsDecimalLiteral(w) ==
    LET b == IF Len(w) > 0 /\ w[1] \in {"+", "-"} THEN Tail(w) ELSE w
    IN  \E k \in 0..Len(b) :
            /\ \A i \in 1..k : IsDigit(b[i])
            /\ \/ k = Len(b) /\ k >= 1
               \/ /\ k < Len(b)
                  /\ b[k + 1] = "."
                  /\ \A i \in (k + 2)..Len(b) : IsDigit(b[i])
                  /\ (k >= 1 \/ Len(b) >= k + 2)

\* Text t starts, after white space, with a decimal literal.
ParsesAsNumber(t) ==
    \E i \in 1..Len(t), j \in 1..Len(t) :
        /\ i <= j
        /\ \A m \in 1..(i - 1) : IsSpace(t[m])
        /\ IsDecimalLiteral(SubSeq(t, i, j))

\* All three required fields hold text.
FieldsFilled == date # EmptyDate /\ amount # <<>> /\ ethPrice # <<>>

\* The fields, as they stand, pass the three validations of submit.
FieldsValid ==
    /\ FieldsFilled
    /\ ParsesAsNumber(amount) /\ ParsesAsNumber(ethPrice)
    /\ GtZero(parseFloat(amount)) /\ GtZero(parseFloat(ethPrice))

\* The records passed to onAddInvestment by the handler that ran last.
Passed == { Calls(log)[i].rec[1] : i \in 1..Len(Calls(log)) }

\* The same of the handler this step runs.
PassedNext == { Calls(log')[i].rec[1] : i \in 1..Len(Calls(log')) }

\* The sign of a number: -1, 0 or 1.
Sign(x) == SignInt(x.n)

(***************************************************************************)
(* Properties.                                                             *)
(***************************************************************************)
\* C1: the output of PrivateRoute is decided by the current AuthState alone:
\* while loading, the placeholder and nothing else; not loading and no user,
\* the redirect to /login and nothing else; not loading and a user, the
\* children and no redirect.
C1_GuardOutput ==
    /\ loading =>
         rendered = [placeholder |-> TRUE, children |-> FALSE, redirect |-> ""]
    /\ (~loading /\ user = Null) =>
         rendered = [placeholder |-> FALSE, children |-> FALSE,
                     redirect |-> "/login"]
    /\ (~loading /\ user # Null) =>
         rendered = [placeholder |-> FALSE, children |-> TRUE, redirect |-> ""]

\* C1 witness: an AuthState change has left a user signed in and the guard
\* shows the children.
C1_Witness ==
    ev = "auth" /\ ~loading /\ user # Null /\ rendered.children

\* C2: a submit with date, amount or ethPrice empty passes nothing to
\* onAddInvestment, shows "Please complete all fields" and changes no form
\* state.
C2_EmptyFieldRejected ==
    [][ (ev' = "submit" /\ ~FieldsFilled) =>
          /\ log' = <<ToastError("Please complete all fields")>>
          /\ UNCHANGED <<formVars, pending>> ]_vars

\* C2 witness: a submit with an empty ETH price field was rejected.
C2_Witness ==
    /\ ev = "submit" /\ ethPrice = <<>> /\ date # EmptyDate /\ amount # <<>>
    /\ log = <<ToastError("Please complete all fields")>>

\* C3: a submit with all three fields filled and an amount or ethPrice that
\* does not parse as a number shows "Please enter valid numeric values" and
\* passes nothing to onAddInvestment.
C3_NonNumericRejected ==
    [][ (/\ ev' = "submit"
         /\ FieldsFilled
         /\ ~(ParsesAsNumber(amount) /\ ParsesAsNumber(ethPrice))) =>
          log' = <<ToastError("Please enter valid numeric values")>> ]_vars

\* C3 witness: a submit with ethPrice = "xyz" and a numeric amount was
\* rejected as not numeric.
C3_Witness ==
    /\ ev = "submit" /\ ethPrice = <<"x", "y", "z">> /\ amount = <<"5">>
    /\ log = <<ToastError("Please enter valid numeric values")>>

\* C4: a submit whose amount and ethPrice both parse and one of them is
\* <= 0 shows "Values must be greater than zero" and passes nothing to
\* onAddInvestment; no record with ethPrice <= 0 or amount 0 is ever passed.
C4_NonPositiveRejected ==
    [][ /\ (/\ ev' = "submit"
            /\ FieldsFilled
            /\ ParsesAsNumber(amount) /\ ParsesAsNumber(ethPrice)
            /\ (~GtZero(parseFloat(amount)) \/ ~GtZero(parseFloat(ethPrice)))) =>
             log' = <<ToastError("Values must be greater than zero")>>
        /\ \A r \in PassedNext : r.ethPrice.n > 0 /\ r.amount.n # 0 ]_vars

\* C4 witness: a submit with ethPrice = "0" and a positive amount was
\* rejected as not positive.
C4_Witness ==
    /\ ev = "submit" /\ ethPrice = <<"0">> /\ amount = <<"5">>
    /\ log = <<ToastError("Values must be greater than zero")>>

\* C5: a submit of valid fields with amount a and ethPrice p passes one
\* record with ethPrice p and the selected type; a deposit has amount a and
\* ethAmount a/p, both positive, a withdrawal amount -a and ethAmount -a/p,
\* both negative (ethAmount = x/p is stated as ethAmount * p = x).
C5_SignedAmounts ==
    [][ (ev' = "submit" /\ FieldsValid) =>
          /\ Cardinality(PassedNext) = 1
          /\ \A r \in PassedNext :
               /\ r.ethPrice = parseFloat(ethPrice)
               /\ r.type = type
               /\ IsFinite(r.ethAmount)
               /\ IF type = "withdrawal"
                  THEN /\ r.amount = Neg(parseFloat(amount))
                       /\ Mul(r.ethAmount, parseFloat(ethPrice))
                            = Neg(parseFloat(amount))
                       /\ r.amount.n < 0 /\ r.ethAmount.n < 0
                  ELSE /\ r.amount = parseFloat(amount)
                       /\ Mul(r.ethAmount, parseFloat(ethPrice))
                            = parseFloat(amount)
                       /\ r.amount.n > 0 /\ r.ethAmount.n > 0 ]_vars

\* C5 witness: a withdrawal of 5 at price 4 was passed as amount -5 and
\* ethAmount -5/4.
C5_Witness ==
    /\ ev = "submit" /\ type = "withdrawal" /\ ethPrice = <<"4">>
    /\ \E r \in Passed :
         r.amount = [n |-> -5, d |-> 1] /\ r.ethAmount = [n |-> -5, d |-> 4]

\* C6: every record passed to onAddInvestment has amount and ethAmount of
\* the sign of its type (-1 for a withdrawal, +1 otherwise) and
\* ethAmount = amount / ethPrice, stated as ethAmount * ethPrice = amount.
C6_RecordInvariants ==
    \A r \in Passed :
        /\ Sign(r.amount) = (IF r.type = "withdrawal" THEN -1 ELSE 1)
        /\ Sign(r.ethAmount) = Sign(r.amount)
        /\ IsFinite(r.amount) /\ IsFinite(r.ethPrice) /\ IsFinite(r.ethAmount)
        /\ Mul(r.ethAmount, r.ethPrice) = r.amount

\* C6 witness: a withdrawal record was passed after the form had been
\* switched to a record being edited.
C6_Witness ==
    /\ ev = "submit" /\ editingInvestment # Null
    /\ \E r \in Passed : r.type = "withdrawal" /\ r.ethAmount.n < 0

\* C7: a submit in edit mode passes a record with the id of
\* editingInvestment and shows "Investment updated"; a submit in create
\* mode passes a newly generated id and shows "Investment added".
C7_IdPreservedOnEdit ==
    (ev = "submit" /\ Passed # {}) =>
        IF editingInvestment # Null
        THEN /\ \A r \in Passed : r.id = editingInvestment[1].id
             /\ Toasts(log) = <<ToastSuccess("Investment updated")>>
        ELSE /\ \A r \in Passed : r.id \in NewIds
             /\ Toasts(log) = <<ToastSuccess("Investment added")>>

\* C8: a successful create submit empties the amount field and starts a
\* price fetch (isLoading true); a successful edit submit leaves the amount
\* field as it is and starts no fetch.
C8_ResetAfterCreate ==
    [][ (ev' = "submit" /\ PassedNext # {}) =>
          IF editingInvestment = Null
          THEN amount' = <<>> /\ isLoading' /\ pending' = pending + 1
          ELSE amount' = amount /\ pending' = pending
               /\ isLoading' = isLoading ]_vars

\* C8 witness: a create submit went through, the amount field is empty and
\* a fetch is in flight.
C8_Witness ==
    /\ ev = "submit" /\ editingInvestment = Null /\ Passed # {}
    /\ amount = <<>> /\ isLoading /\ pending > 0

\* C9: onAddInvestment is invoked once by a submit that passes validation
\* (the one that shows the success notification), not at all by a submit
\* that fails, and by no other handler.
C9_CallbackOncePerSuccess ==
    [][ /\ ev' = "submit" =>
             /\ Len(Calls(log')) = (IF FieldsValid THEN 1 ELSE 0)
             /\ FieldsValid <=>
                  (\E i \in 1..Len(log') : log'[i].level = "success")
        /\ ev' # "submit" => Calls(log') = <<>> ]_vars

\* C9 witness: a submit was rejected for a non-positive amount and nothing
\* was passed.
C9_Witness ==
    /\ ev = "submit" /\ amount = <<"-", "5">> /\ Calls(log) = <<>>
    /\ log # <<>>

\* C10: a fetch that fails does not write the ethPrice field (neither when
\* it starts nor when it fails), leaves isLoading false and shows "Error
\* getting ETH price. Enter it manually." once.
C10_FetchFailure ==
    [][ /\ ev' = "reject" =>
             /\ ethPrice' = ethPrice
             /\ isLoading' = FALSE
             /\ log' = <<ToastError("Error getting ETH price. Enter it manually.")>>
        /\ pending' > pending => ethPrice' = ethPrice ]_vars

\* C10 witness: a fetch failed while the price field held a value.
C10_Witness ==
    /\ ev = "reject" /\ ethPrice = <<"4">> /\ ~isLoading
    /\ Len(Toasts(log)) = 1

\* C11: a fetch that completes, resolved or rejected, leaves isLoading
\* false at that point; with a price service that answers every request,
\* isLoading = true always leads to isLoading = false.
C11_LoadingCleared ==
    /\ [][ ev' \in {"resolve", "reject"} => ~isLoading' ]_vars
    /\ isLoading ~> ~isLoading

\* C11 witness: a response arrived and cleared isLoading.
C11_Witness ==
    ev = "resolve" /\ ~isLoading /\ pending = 0

\* The UTC day of the instant a date string names, as a date-only string.
UtcDay(s) ==
    [empty |-> FALSE, hasTime |-> FALSE, hour |-> 0, off |-> 0,
     day |-> IF s.hasTime
             THEN s.day + (IF s.hour - s.off < 0 THEN -1
                           ELSE IF s.hour - s.off > 23 THEN 1 ELSE 0)
             ELSE s.day]

\* The form fields hold what record r is shown as: its day-precision date,
\* the absolute value of its amount, its ethPrice and its type (deposit
\* when the record has none).  f is a form state.
ShowsRecord(f, r) ==
    /\ f.date = UtcDay(r.date)
    /\ ParsesAsNumber(f.amount)
    /\ parseFloat(f.amount) = [n |-> AbsInt(r.amount.n), d |-> r.amount.d]
    /\ ParsesAsNumber(f.ethPrice)
    /\ parseFloat(f.ethPrice) = r.ethPrice
    /\ f.type = (IF r.type \in {"deposit", "withdrawal"} THEN r.type
                 ELSE "deposit")

\* C12: whenever editingInvestment becomes a record (at mount or later),
\* the form shows the record's day-precision date, the absolute value of
\* its amount, its ethPrice and its type (deposit if absent), and no price
\* fetch is started.
C12_EditInitialization ==
    /\ (editingInvestment # Null) =>
          ShowsRecord(Cur, editingInvestment[1]) /\ pending = 0 /\ ~isLoading
    /\ [][ (ev' = "props" /\ editingInvestment' # Null) =>
             /\ ShowsRecord(Cur', editingInvestment'[1])
             /\ pending' = pending
             /\ isLoading' = isLoading ]_vars

\* C12 witness: the form was switched to the withdrawal of -10 dated
\* 23:00 at UTC-5 of day 19 and shows day 20, amount "10", price "4".
C12_Witness ==
    /\ ev = "props" /\ editingInvestment # Null
    /\ editingInvestment[1].id = "b2"
    /\ date = DayOnly(20) /\ amount = <<"1", "0">> /\ ethPrice = <<"4">>
    /\ type = "withdrawal"

\* C13: every change of editingInvestment re-initializes the form: a
\* record replaces date, amount, ethPrice and type with its values, and
\* null after a record restores date = current day, amount empty and type
\* deposit and starts a price fetch.
C13_FullReinitialization ==
    [][ ev' = "props" =>
          IF editingInvestment' # Null
          THEN ShowsRecord(Cur', editingInvestment'[1])
          ELSE /\ date' = Today
               /\ amount' = <<>>
               /\ type' = "deposit"
               /\ isLoading' /\ pending' = pending + 1 ]_vars

\* C14: fetches in flight are neither cancelled nor ordered: only a
\* response takes a fetch out of flight, one at a time, and every resolved
\* response overwrites the ethPrice field with the returned price, whatever
\* the field held and however many fetches remain in flight.
C14_LastResponseWins ==
    [][ /\ pending' < pending =>
             ev' \in {"resolve", "reject"} /\ pending' = pending - 1
        /\ ev' = "resolve" =>
             /\ ParsesAsNumber(ethPrice')
             /\ parseFloat(ethPrice') \in Prices ]_vars

\* C14 witness: a response overwrote the price field while another fetch
\* was still in flight.
C14_Witness ==
    ev = "resolve" /\ pending = 1 /\ ethPrice = <<"2", ".", "5">>

\* C15: a submit that fails a validation changes no form state (date,
\* amount, ethPrice, type, isLoading), starts no fetch and passes nothing
\* to onAddInvestment.
C15_FailedSubmitFrame ==
    [][ (ev' = "submit" /\ ~FieldsValid) =>
          /\ UNCHANGED <<formVars, pending>>
          /\ Calls(log') = <<>> ]_vars

\* C15 witness: a submit with amount "abc" failed and the field still
\* holds "abc".
C15_Witness ==
    /\ ev = "submit" /\ amount = <<"a", "b", "c">> /\ ethPrice # <<>>
    /\ date # EmptyDate /\ Len(log) = 1 /\ log[1].level = "error"

\* C16: isLoading is true exactly when at least one price fetch has been
\* started and has not completed.
C16_LoadingIffInFlight ==
    isLoading <=> pending > 0

\* C16 as amended: isLoading is true only while a fetch is in flight, and
\* it follows the latest fetch event: a start sets it, a completion clears
\* it (also with other fetches still in flight), nothing else changes it.
C16_LoadingFollowsLastEvent ==
    /\ [](isLoading => pending > 0)
    /\ [][ /\ pending' > pending => isLoading'
           /\ pending' < pending => ~isLoading'
           /\ pending' = pending => isLoading' = isLoading ]_vars

\* C16 witness: one of two overlapping fetches completed; isLoading is
\* false with the other still in flight.
C16_Witness ==
    ev \in {"resolve", "reject"} /\ ~isLoading /\ pending > 0

\* C17: a fetch in flight does not block submit, which is a single step:
\* a submit of valid fields made while isLoading passes one record built
\* from the ethPrice field as it stands, and a response, when it comes,
\* touches the ethPrice field, isLoading and nothing else, and passes no
\* record.
C17_SubmitNotBlocked ==
    [][ /\ (ev' = "submit" /\ FieldsValid /\ isLoading) =>
             /\ Cardinality(PassedNext) = 1
             /\ \A r \in PassedNext :
                  r.ethPrice = parseFloat(ethPrice) /\ r.date = date
        /\ ev' \in {"resolve", "reject"} =>
             /\ Calls(log') = <<>>
             /\ UNCHANGED <<date, amount, type, editingInvestment>> ]_vars

\* C17 witness: an edit submit went through while a fetch started earlier
\* was still loading.
C17_Witness ==
    /\ ev = "submit" /\ editingInvestment # Null /\ isLoading /\ pending > 0
    /\ Passed # {}

\* C18: the validations run in a fixed order and stop at the first
\* failure: a failed submit shows one error notification and nothing else,
\* for an empty field first, else for a value that does not parse, else for
\* a value that is not positive; a submit that passes shows no error and
\* one success notification, after the onAddInvestment call.
C18_ValidationOrder ==
    [][ ev' = "submit" =>
          IF ~FieldsFilled
          THEN log' = <<ToastError("Please complete all fields")>>
          ELSE IF ~(ParsesAsNumber(amount) /\ ParsesAsNumber(ethPrice))
          THEN log' = <<ToastError("Please enter valid numeric values")>>
          ELSE IF ~(GtZero(parseFloat(amount)) /\ GtZero(parseFloat(ethPrice)))
          THEN log' = <<ToastError("Values must be greater than zero")>>
          ELSE /\ Len(log') = 2
               /\ log'[1].k = "call"
               /\ log'[2].k = "toast" /\ log'[2].level = "success" ]_vars

\* C18 witness: a submit with an empty date and the amount "abc" showed
\* the required-field notification.
C18_Witness ==
    /\ ev = "submit" /\ date = EmptyDate /\ amount = <<"a", "b", "c">>
    /\ log = <<ToastError("Please complete all fields")>>

\* Record r satisfies the Investment invariants: a type, amount and
\* ethAmount of the sign of the type, ethAmount = amount / ethPrice,
\* ethPrice > 0, an id and a date.
WellFormed(r) ==
    /\ r.type \in {"deposit", "withdrawal"}
    /\ Sign(r.amount) = (IF r.type = "withdrawal" THEN -1 ELSE 1)
    /\ Sign(r.ethAmount) = Sign(r.amount)
    /\ IsFinite(r.amount) /\ IsFinite(r.ethAmount) /\ IsFinite(r.ethPrice)
    /\ Mul(r.ethAmount, r.ethPrice) = r.amount
    /\ r.ethPrice.n > 0
    /\ r.id # ""
    /\ ~r.date.empty

\* This step submits the form as the initialization from editingInvestment
\* left it.
SubmitsAsLoaded ==
    ev \in {"mount", "props"} /\ editingInvestment # Null /\ ev' = "submit"

\* C19: a record that satisfies the Investment invariants, loaded into
\* edit mode and submitted with no field changed, is passed to
\* onAddInvestment equal to the original in every field.
C19_RoundTrip ==
    [][ (SubmitsAsLoaded /\ WellFormed(editingInvestment[1])) =>
          PassedNext = {editingInvestment[1]} ]_vars

\* C19 as amended: the same for a record whose date is a date-only string.
C19_RoundTripDayPrecision ==
    [][ (/\ SubmitsAsLoaded
         /\ WellFormed(editingInvestment[1])
         /\ ~editingInvestment[1].date.hasTime) =>
          PassedNext = {editingInvestment[1]} ]_vars

\* C19 witness: the withdrawal record d4 came back as it was loaded.
C19_Witness ==
    /\ ev = "submit" /\ editingInvestment # Null
    /\ editingInvestment[1].id = "d4"
    /\ Passed = {editingInvestment[1]}

\* C20: once the form is initialized from a record, the ethPrice field
\* changes only by an edit of the field or by the response to a click on
\* the fetch button made since; a response that arrives right after the
\* initialization, to a fetch started before it, leaves the field alone.
C20_EditPriceStable ==
    [][ (/\ editingInvestment # Null
         /\ editingInvestment' = editingInvestment
         /\ ev' # "props"
         /\ ethPrice' # ethPrice) =>
          \/ ev' = "ethPrice"
          \/ ev' = "resolve" /\ ev \notin {"mount", "props"} ]_vars

\* C20 as amended: the initialization shows the record's ethPrice, and in
\* edit mode the field then changes only by an edit of the field or by the
\* resolved response of a fetch in flight, whenever that fetch was started.
C20_EditPriceChanges ==
    [][ /\ (ev' = "props" /\ editingInvestment' # Null) =>
             parseFloat(ethPrice') = editingInvestment'[1].ethPrice
        /\ (/\ editingInvestment # Null
            /\ editingInvestment' = editingInvestment
            /\ ev' # "props"
            /\ ethPrice' # ethPrice) =>
             ev' \in {"ethPrice", "resolve"} ]_vars

\* C20 witness: in edit mode a response has replaced the record's price.
C20_Witness ==
    /\ ev = "resolve" /\ editingInvestment # Null
    /\ parseFloat(ethPrice) # editingInvestment[1].ethPrice

====
